---- MODULE Spec2Model ----
(***************************************************************************)
(* A model of beltsander (src/beltsander.py): the declarative command-line *)
(* test runner.  Three state machines share this module:                   *)
(*                                                                         *)
(*   Spec        main(argv): parse_xml_test, then TestScript.execute       *)
(*   SpecTest    one Test object under Test.execute, one battery           *)
(*               iteration per step                                        *)
(*   SpecSetter  the Test.expected property setter, called directly and    *)
(*               through parse_xml_test line 187                           *)
(*                                                                         *)
(* Python values are encoded as follows.  An optional value is a set: None *)
(* is {} and a present value v is {v}.  A str is a sequence of one         *)
(* character strings, so that substring search and int() are computed.     *)
(***************************************************************************)
EXTENDS Integers, Sequences, FiniteSets, TLC

VARIABLES
    \* ---- main(argv) ----
    pc,           \* position in main / parse_xml_test / TestScript.execute
    tests,        \* script.tests
    elem,         \* the <test> element of the current loop iteration (t)
    exc,          \* the exception that ended the process, or None
    cur,          \* enumerate() position in TestScript.execute (count)
    result,       \* (p.returncode, output) of the command that just ran
    invoked,      \* commands handed to Popen so far, in order
    verdicts,     \* Test.execute() return values so far, in order
    numFailures,  \* TestScript.execute local
    summary,      \* the summary line printed, or None
    ret,          \* return value of main, or None
    \* ---- one Test under execute() ----
    tpc,          \* position in Test.execute
    test,         \* the Test object
    returncode,   \* p.returncode
    output,       \* output = p.communicate(self.input)[0]
    errout,       \* what the command wrote to its standard error
    passed,       \* Test.execute local
    j,            \* index of the next condition of the running battery
    checks,       \* condition.check calls made, in order
    diags,        \* 'FAILED:' lines printed, in order
    verdict,      \* return value of Test.execute, or None
    \* ---- Test.expected setter ----
    expected,     \* Test._expected
    setlog        \* assignments made to Test.expected, in order

mainVars == <<pc, tests, elem, exc, cur, result, invoked, verdicts,
              numFailures, summary, ret>>
testVars == <<tpc, test, returncode, output, errout, passed, j, checks,
              diags, verdict>>
setterVars == <<expected, setlog>>
vars == <<mainVars, testVars, setterVars>>

----------------------------------------------------------------------------
(* Bounds *)

\* tests in a document
MaxTests == 2
\* condition children in a whole document
MaxKids == 2
\* conditions of the Test object of SpecTest, both batteries together
MaxConds == 2
\* assignments to Test.expected in SpecSetter
MaxSets == 3

----------------------------------------------------------------------------
(* Python values *)

None == {}
Some(v) == {v}
Val(o) == CHOOSE v \in o : TRUE

\* exit codes a command may end with
RetCodes == {0, 2}
\* texts a command may write to its standard output
StdOuts == {<<>>, <<"b", "a">>, <<"b", "a", "b">>}
\* texts a command may write to its standard error
StdErrs == {<<>>, <<"a", "b">>}

\* `self.contains in value` for str operands
IsSubstring(s, t) ==
    \E i \in 0..(Len(t) - Len(s)) : SubSeq(t, i + 1, i + Len(s)) = s

----------------------------------------------------------------------------
(* TestCondition *)

\* TestCondition objects: return_code and contains, each None or set
Conditions ==
    [return_code : {None, Some(2)},
     contains    : {None, Some(<<>>), Some(<<"a", "b">>)}]

check_return_code(c, value) == Val(c.return_code) = value

check_contains(c, value) == IsSubstring(Val(c.contains), value)

\* check with the two branches in the other order
check_contains_first(c, return_code, out) ==
    IF c.contains # None THEN check_contains(c, out)
    ELSE IF c.return_code # None THEN check_return_code(c, return_code)
    ELSE FALSE

check(c, return_code, out) ==
    IF c.return_code # None THEN check_return_code(c, return_code)
    ELSE IF c.contains # None THEN check_contains(c, out)
    ELSE FALSE

\* TestCondition.error: the message, as the values it is formatted from
error_message(c, return_code, out) ==
    IF c.return_code # None
        THEN [kind |-> "Return code != ", got |-> Some(return_code), cond |-> c]
    ELSE IF c.contains # None
        THEN [kind |-> "Output does not contain ", got |-> None, cond |-> c]
    ELSE [kind |-> "<unknown>", got |-> None, cond |-> c]

----------------------------------------------------------------------------
(* Test.execute *)

\* the acceptance loop with a break after the first failed condition
PassIterShortCircuit(t, k, st, return_code, out) ==
    LET c == t.pass_conditions[k]
        r == check(c, return_code, out)
        logged == Append(st.checks, [battery |-> "pass", idx |-> k, res |-> r])
    IN  IF ~st.passed THEN st
        ELSE IF ~r
            THEN [passed |-> FALSE,
                  diags  |-> IF t.expected
                                THEN Append(st.diags,
                                        [battery |-> "pass", idx |-> k,
                                         msg |-> error_message(c, return_code, out)])
                                ELSE st.diags,
                  checks |-> logged]
            ELSE [st EXCEPT !.checks = logged]

\* One iteration of the acceptance loop.  st = [passed, diags, checks].
PassIter(t, k, st, return_code, out) ==
    LET c == t.pass_conditions[k]
        r == check(c, return_code, out)
        logged == Append(st.checks, [battery |-> "pass", idx |-> k, res |-> r])
    IN  IF ~r
            THEN [passed |-> FALSE,
                  diags  |-> IF t.expected
                                THEN Append(st.diags,
                                        [battery |-> "pass", idx |-> k,
                                         msg |-> error_message(c, return_code, out)])
                                ELSE st.diags,
                  checks |-> logged]
            ELSE [st EXCEPT !.checks = logged]

\* the failure loop reporting the conditions that hold, not those that do not
FailIterReportHeld(t, k, st, return_code, out) ==
    LET c == t.fail_conditions[k]
        r == check(c, return_code, out)
        logged == Append(st.checks, [battery |-> "fail", idx |-> k, res |-> r])
    IN  IF r
            THEN [passed |-> FALSE,
                  diags  |-> IF ~t.expected
                                THEN Append(st.diags,
                                        [battery |-> "fail", idx |-> k,
                                         msg |-> error_message(c, return_code, out)])
                                ELSE st.diags,
                  checks |-> logged]
            ELSE [st EXCEPT !.checks = logged]

\* One iteration of the failure loop.
FailIter(t, k, st, return_code, out) ==
    LET c == t.fail_conditions[k]
        r == check(c, return_code, out)
        logged == Append(st.checks, [battery |-> "fail", idx |-> k, res |-> r])
    IN  IF r
            THEN [st EXCEPT !.passed = FALSE, !.checks = logged]
        ELSE IF ~t.expected
            THEN [st EXCEPT !.checks = logged,
                            !.diags = Append(st.diags,
                                        [battery |-> "fail", idx |-> k,
                                         msg |-> error_message(c, return_code, out)])]
        ELSE [st EXCEPT !.checks = logged]

\* return passed
VerdictIgnoresExpected(t, p) == p

\* return passed == self.expected
Verdict(t, p) == (p = t.expected)

\* What Popen captures: stdout=PIPE only, standard error is not redirected.
Captured(so, se) == so

\* Test objects: batteries of at most n conditions together
SeqsUpTo(S, n) == UNION {[1..m -> S] : m \in 0..n}

TestObjects(n) ==
    {t \in [expected        : BOOLEAN,
            pass_conditions : SeqsUpTo(Conditions, n),
            fail_conditions : SeqsUpTo(Conditions, n)] :
        Len(t.pass_conditions) + Len(t.fail_conditions) <= n}

InitTest ==
    /\ tpc = "ready"
    /\ test \in TestObjects(MaxConds)
    /\ returncode = None
    /\ output = None
    /\ errout = None
    /\ passed = TRUE
    /\ j = 0
    /\ checks = <<>>
    /\ diags = <<>>
    /\ verdict = None

\* Popen(...); output = p.communicate(self.input)[0]
Spawn ==
    /\ tpc = "ready"
    /\ \E rc \in RetCodes, so \in StdOuts, se \in StdErrs :
        /\ returncode' = Some(rc)
        /\ output' = Some(Captured(so, se))
        /\ errout' = Some(se)
    /\ passed' = TRUE
    /\ tpc' = "pass"
    /\ j' = 1
    /\ UNCHANGED <<test, checks, diags, verdict>>

\* for condition in self.pass_conditions: one iteration
PassStep ==
    /\ tpc = "pass"
    /\ j <= Len(test.pass_conditions)
    /\ LET st == PassIter(test, j, [passed |-> passed, diags |-> diags, checks |-> checks],
                          Val(returncode), Val(output))
       IN  /\ passed' = st.passed
           /\ diags' = st.diags
           /\ checks' = st.checks
    /\ j' = j + 1
    /\ UNCHANGED <<tpc, test, returncode, output, errout, verdict>>

\* the acceptance loop is exhausted; the failure loop starts
PassDone ==
    /\ tpc = "pass"
    /\ j > Len(test.pass_conditions)
    /\ tpc' = "fail"
    /\ j' = 1
    /\ UNCHANGED <<test, returncode, output, errout, passed, checks, diags, verdict>>

\* for condition in self.fail_conditions: one iteration
FailStep ==
    /\ tpc = "fail"
    /\ j <= Len(test.fail_conditions)
    /\ LET st == FailIter(test, j, [passed |-> passed, diags |-> diags, checks |-> checks],
                          Val(returncode), Val(output))
       IN  /\ passed' = st.passed
           /\ diags' = st.diags
           /\ checks' = st.checks
    /\ j' = j + 1
    /\ UNCHANGED <<tpc, test, returncode, output, errout, verdict>>

\* return passed == self.expected
Return ==
    /\ tpc = "fail"
    /\ j > Len(test.fail_conditions)
    /\ verdict' = Some(Verdict(test, passed))
    /\ tpc' = "done"
    /\ UNCHANGED <<test, returncode, output, errout, passed, j, checks, diags>>

----------------------------------------------------------------------------
(* Test.expected *)

\* A value handed to the setter: a bool, or a str (attribute tokens are only
\* compared for equality, so they are kept as whole strings).
BoolVal(b) == [kind |-> "bool", val |-> IF b THEN "True" ELSE "False"]
StrVal(s) == [kind |-> "str", val |-> s]

ExpectedStrings == {"pass", "fail", "true", "Pass", ""}
ExpectedValues ==
    {BoolVal(TRUE), BoolVal(FALSE)} \cup {StrVal(s) : s \in ExpectedStrings}

\* the setter comparing the tokens without regard to case
expected_setter_anycase(old, value) ==
    IF value.kind = "bool"
        THEN [raised |-> FALSE, expected |-> (value.val = "True")]
    ELSE IF value.val \in {"fail", "Fail"}
        THEN [raised |-> FALSE, expected |-> FALSE]
    ELSE IF value.val \in {"pass", "Pass"}
        THEN [raised |-> FALSE, expected |-> TRUE]
    ELSE [raised |-> TRUE, expected |-> old]

\* @expected.setter: the stored polarity afterwards and whether SyntaxError
\* was raised; old is self._expected before the call.
expected_setter(old, value) ==
    IF value.kind = "bool"
        THEN [raised |-> FALSE, expected |-> (value.val = "True")]
    ELSE IF value.val = "fail"
        THEN [raised |-> FALSE, expected |-> FALSE]
    ELSE IF value.val = "pass"
        THEN [raised |-> FALSE, expected |-> TRUE]
    ELSE [raised |-> TRUE, expected |-> old]

\* t.get('expected', True)
GetExpected(attr) == IF attr = None THEN BoolVal(TRUE) ELSE StrVal(Val(attr))

\* Test(): self._expected = True
NewTestExpected == TRUE

InitSetter ==
    /\ expected = NewTestExpected
    /\ setlog = <<>>

\* test.expected = value, on the Test object at hand
SetExpected ==
    /\ Len(setlog) < MaxSets
    /\ \E value \in ExpectedValues :
        LET r == expected_setter(expected, value)
        IN  /\ expected' = r.expected
            /\ setlog' = Append(setlog,
                    [how |-> "set", attr |-> None, value |-> value,
                     before |-> expected, raised |-> r.raised,
                     after |-> r.expected])

\* test = Test(); ...; test.expected = t.get('expected', True)
LoadExpected ==
    /\ Len(setlog) < MaxSets
    /\ \E attr \in {None} \cup {Some(s) : s \in ExpectedStrings} :
        LET r == expected_setter(NewTestExpected, GetExpected(attr))
        IN  /\ expected' = r.expected
            /\ setlog' = Append(setlog,
                    [how |-> "load", attr |-> attr, value |-> GetExpected(attr),
                     before |-> NewTestExpected, raised |-> r.raised,
                     after |-> r.expected])

----------------------------------------------------------------------------
(* parse_xml_test, parse_xml_conditions *)

\* an exception: its type, the line that raises it, and the test id its
\* message names (None when the message names none)
Exc(type, line, id) == [type |-> type, line |-> line, id |-> id]

\* condition children of a pass/fail block
Tags == {"returncode", "contains", "bogus"}
Texts == {None, Some(<<"0", "2">>), Some(<<"a">>)}
Kids == [tag : Tags, text : Texts]

\* the expected attribute of a <test> element
ExpectedAttrs == {None, Some("pass"), Some("fail"), Some("Pass")}

\* a pass/fail block: absent, or its children
Blocks(n) == {None} \cup {Some(s) : s \in SeqsUpTo(Kids, n)}
BlockLen(b) == IF b = None THEN 0 ELSE Len(Val(b))

\* int(value) for the texts above: decimal digits only
DigitVal(ch) ==
    CASE ch = "0" -> 0 [] ch = "1" -> 1 [] ch = "2" -> 2 [] ch = "3" -> 3
      [] ch = "4" -> 4 [] ch = "5" -> 5 [] ch = "6" -> 6 [] ch = "7" -> 7
      [] ch = "8" -> 8 [] ch = "9" -> 9

IsIntText(s) ==
    /\ Len(s) > 0
    /\ \A i \in 1..Len(s) : s[i] \in {"0", "1", "2", "3", "4", "5", "6", "7", "8", "9"}

RECURSIVE IntOf(_)
IntOf(s) ==
    IF Len(s) = 0 THEN 0
    ELSE 10 * IntOf(SubSeq(s, 1, Len(s) - 1)) + DigitVal(s[Len(s)])

\* line 208: error('Empty condition block in {}, skipping...'.format(test.id))
\* names `test`, which is bound neither in parse_xml_conditions nor at
\* module level, so evaluating the argument raises NameError.
EmptyConditionBlock(k, acc) == [exc |-> Some(Exc("NameError", 208, None)), conds |-> acc]

\* line 217: raise SyntaxError('Unknown condition:', condition.tag): a
\* TestCondition has no attribute tag, so AttributeError is what is raised.
UnknownCondition == Exc("AttributeError", 217, None)

\* the loop of parse_xml_conditions from child j on; acc are the conditions
\* yielded so far
RECURSIVE ParseKids(_, _, _)
ParseKids(kids, k, acc) ==
    IF k > Len(kids) THEN [exc |-> None, conds |-> acc]
    ELSE LET c == kids[k] IN
        IF c.text = None THEN
            LET skip == EmptyConditionBlock(k, acc)
            IN  IF skip.exc # None THEN skip ELSE ParseKids(kids, k + 1, skip.conds)
        ELSE IF c.tag = "returncode" THEN
            IF IsIntText(Val(c.text))
                THEN ParseKids(kids, k + 1,
                        Append(acc, [return_code |-> Some(IntOf(Val(c.text))),
                                     contains |-> None]))
                ELSE [exc |-> Some(Exc("ValueError", 146, None)), conds |-> acc]
        ELSE IF c.tag = "contains" THEN
            ParseKids(kids, k + 1,
                Append(acc, [return_code |-> None, contains |-> c.text]))
        ELSE [exc |-> Some(UnknownCondition), conds |-> acc]

parse_xml_conditions(block) ==
    IF block = None THEN [exc |-> None, conds |-> <<>>]
    ELSE ParseKids(Val(block), 1, <<>>)

\* the missing-command error without the test id in its message
MissingCommandUnnamed(e) == Exc("SyntaxError", 192, None)

\* line 192: raise SyntaxError('Test {} has no command!'.format(test.id))
MissingCommand(e) == Exc("SyntaxError", 192, Some(e.id))

\* the body of `for t in root.findall('test')` up to the append: the Test
\* built from element e, or the exception that leaves the loop
parse_element(e) ==
    LET set == expected_setter(NewTestExpected, GetExpected(e.expected))
        pass == parse_xml_conditions(e.pass)
        fail == parse_xml_conditions(e.fail)
    IN  IF set.raised THEN [exc |-> Some(Exc("SyntaxError", 97, None)), test |-> None]
        ELSE IF e.command = None THEN [exc |-> Some(MissingCommand(e)), test |-> None]
        ELSE IF pass.exc # None THEN [exc |-> pass.exc, test |-> None]
        ELSE IF fail.exc # None THEN [exc |-> fail.exc, test |-> None]
        ELSE [exc  |-> None,
              test |-> Some([id |-> e.id, expected |-> set.expected,
                             command |-> Val(e.command),
                             pass_conditions |-> pass.conds,
                             fail_conditions |-> fail.conds])]

----------------------------------------------------------------------------
(* Test.execute and TestScript.execute as main runs them *)

RECURSIVE PassLoop(_, _, _, _, _)
PassLoop(t, k, st, return_code, out) ==
    IF k > Len(t.pass_conditions) THEN st
    ELSE PassLoop(t, k + 1, PassIter(t, k, st, return_code, out), return_code, out)

RECURSIVE FailLoop(_, _, _, _, _)
FailLoop(t, k, st, return_code, out) ==
    IF k > Len(t.fail_conditions) THEN st
    ELSE FailLoop(t, k + 1, FailIter(t, k, st, return_code, out), return_code, out)

\* Test.execute after the command has ended: the verdict
Test_execute(t, return_code, out) ==
    LET st0 == [passed |-> TRUE, diags |-> <<>>, checks |-> <<>>]
        st1 == PassLoop(t, 1, st0, return_code, out)
        st2 == FailLoop(t, 1, st1, return_code, out)
    IN  Verdict(t, st2.passed)

\* the counter incremented on the wrong branch
CountPasses(n, v) == IF v THEN n + 1 ELSE n

\* if test.execute(): ... else: numFailures += 1
CountFailure(n, v) == IF v THEN n ELSE n + 1

\* a loop that stops at the first failed test
NextTestFailFast(count, v, n) == IF v THEN count + 1 ELSE n + 1

\* the for loop goes on to the next test whatever the verdict was;
\* n is the number of tests
NextTest(count, v, n) == count + 1

\* the summary line
SummaryLine(n) == IF n > 0 THEN "Some tests failed." ELSE "All tests passed."

\* texts a command of a script may write to its standard output
ScriptOuts == {<<>>, <<"a">>}

\* condition children in the tests loaded so far
RECURSIVE KidsLoaded(_)
KidsLoaded(ts) ==
    IF ts = <<>> THEN 0
    ELSE Len(ts[1].pass_conditions) + Len(ts[1].fail_conditions) + KidsLoaded(Tail(ts))

InitMain ==
    /\ pc = "main"
    /\ tests = <<>>
    /\ elem = None
    /\ exc = None
    /\ cur = 0
    /\ result = None
    /\ invoked = <<>>
    /\ verdicts = <<>>
    /\ numFailures = 0
    /\ summary = None
    /\ ret = None

\* main: no argument, no such file, or a name not ending in .xml: return 1
MainReject ==
    /\ pc = "main"
    /\ \E why \in {"no argument", "not a file", "unknown filetype"} :
        /\ ret' = Some(1)
        /\ pc' = "exit"
    /\ UNCHANGED <<tests, elem, exc, cur, result, invoked, verdicts, numFailures, summary>>

\* main: parse_xml_test(testScript) is called; script = TestScript()
MainParse ==
    /\ pc = "main"
    /\ pc' = "parse"
    /\ UNCHANGED <<tests, elem, exc, cur, result, invoked, verdicts, numFailures, summary, ret>>

\* ET.parse raises ParseError; the handler's error(...) names testScript,
\* which parse_xml_test does not bind: NameError leaves the handler
ParseTreeError ==
    /\ pc = "parse"
    /\ exc' = Some(Exc("NameError", 177, None))
    /\ pc' = "load_error"
    /\ UNCHANGED <<tests, elem, cur, result, invoked, verdicts, numFailures, summary, ret>>

\* ET.parse and getroot succeed
ParseTree ==
    /\ pc = "parse"
    /\ pc' = "tests"
    /\ UNCHANGED <<tests, elem, exc, cur, result, invoked, verdicts, numFailures, summary, ret>>

\* one iteration of `for t in root.findall('test')`
ParseTest ==
    /\ pc = "tests"
    /\ Len(tests) < MaxTests
    /\ LET budget == MaxKids - KidsLoaded(tests) IN
       \E a \in ExpectedAttrs, c \in {None, Some(Len(tests) + 1)}, p \in Blocks(budget) :
       \E f \in Blocks(budget - BlockLen(p)) :
        LET e == [id |-> Len(tests) + 1, expected |-> a, command |-> c,
                  pass |-> p, fail |-> f]
            r == parse_element(e)
        IN  /\ elem' = Some(e)
            /\ IF r.exc # None
                  THEN /\ exc' = r.exc
                       /\ pc' = "load_error"
                       /\ tests' = tests
                  ELSE /\ tests' = Append(tests, Val(r.test))
                       /\ UNCHANGED <<exc, pc>>
    /\ UNCHANGED <<cur, result, invoked, verdicts, numFailures, summary, ret>>

\* return script; main prints the banner and calls script.execute()
ParseDone ==
    /\ pc = "tests"
    /\ elem' = None
    /\ numFailures' = 0
    /\ cur' = 1
    /\ pc' = "run"
    /\ UNCHANGED <<tests, exc, result, invoked, verdicts, summary, ret>>

\* the header of test cur is printed and Test.execute starts its command;
\* it ends with an exit code and an output
RunCommand ==
    /\ pc = "run"
    /\ cur <= Len(tests)
    /\ invoked' = Append(invoked, tests[cur].command)
    /\ \E rc \in RetCodes, so \in ScriptOuts, se \in StdErrs :
        result' = Some([returncode |-> rc, output |-> Captured(so, se)])
    /\ pc' = "judge"
    /\ UNCHANGED <<tests, elem, exc, cur, verdicts, numFailures, summary, ret>>

\* Popen raises (the shell cannot be started): the exception leaves main
SpawnError ==
    /\ pc = "run"
    /\ cur <= Len(tests)
    /\ exc' = Some(Exc("OSError", 105, None))
    /\ pc' = "spawn_error"
    /\ UNCHANGED <<tests, elem, cur, result, invoked, verdicts, numFailures, summary, ret>>

\* the batteries run, Test.execute returns, the status is printed and counted
JudgeTest ==
    /\ pc = "judge"
    /\ LET v == Test_execute(tests[cur], Val(result).returncode, Val(result).output)
       IN  /\ verdicts' = Append(verdicts, v)
           /\ numFailures' = CountFailure(numFailures, v)
           /\ cur' = NextTest(cur, v, Len(tests))
    /\ result' = None
    /\ pc' = "run"
    /\ UNCHANGED <<tests, elem, exc, invoked, summary, ret>>

\* the loop is over: the summary is printed, numFailures is returned
Finish ==
    /\ pc = "run"
    /\ cur > Len(tests)
    /\ summary' = Some(SummaryLine(numFailures))
    /\ ret' = Some(numFailures)
    /\ pc' = "exit"
    /\ UNCHANGED <<tests, elem, exc, cur, result, invoked, verdicts, numFailures>>

----------------------------------------------------------------------------
(* Specifications *)

\* the variables of a machine that a specification does not run
IdleMain ==
    /\ pc = "idle" /\ tests = <<>> /\ elem = None /\ exc = None /\ cur = 0
    /\ result = None /\ invoked = <<>> /\ verdicts = <<>> /\ numFailures = 0
    /\ summary = None /\ ret = None

IdleTest ==
    /\ tpc = "idle" /\ test = None /\ returncode = None /\ output = None
    /\ errout = None /\ passed = TRUE /\ j = 0 /\ checks = <<>> /\ diags = <<>>
    /\ verdict = None

IdleSetter == expected = NewTestExpected /\ setlog = <<>>

Init == InitMain /\ IdleTest /\ IdleSetter

\* main(argv)
Next ==
    \/ (MainReject /\ UNCHANGED <<testVars, setterVars>>)
    \/ (MainParse /\ UNCHANGED <<testVars, setterVars>>)
    \/ (ParseTreeError /\ UNCHANGED <<testVars, setterVars>>)
    \/ (ParseTree /\ UNCHANGED <<testVars, setterVars>>)
    \/ (ParseTest /\ UNCHANGED <<testVars, setterVars>>)
    \/ (ParseDone /\ UNCHANGED <<testVars, setterVars>>)
    \/ (RunCommand /\ UNCHANGED <<testVars, setterVars>>)
    \/ (SpawnError /\ UNCHANGED <<testVars, setterVars>>)
    \/ (JudgeTest /\ UNCHANGED <<testVars, setterVars>>)
    \/ (Finish /\ UNCHANGED <<testVars, setterVars>>)

Spec == Init /\ [][Next]_vars

\* Test.execute on one Test object
NextTestObject ==
    \/ (Spawn /\ UNCHANGED <<mainVars, setterVars>>)
    \/ (PassStep /\ UNCHANGED <<mainVars, setterVars>>)
    \/ (PassDone /\ UNCHANGED <<mainVars, setterVars>>)
    \/ (FailStep /\ UNCHANGED <<mainVars, setterVars>>)
    \/ (Return /\ UNCHANGED <<mainVars, setterVars>>)

InitTestObject == IdleMain /\ InitTest /\ IdleSetter

SpecTest == InitTestObject /\ [][NextTestObject]_vars

\* assignments to Test.expected
NextSetter ==
    \/ (SetExpected /\ UNCHANGED <<mainVars, testVars>>)
    \/ (LoadExpected /\ UNCHANGED <<mainVars, testVars>>)

InitSetterObject == IdleMain /\ IdleTest /\ InitSetter

SpecSetter == InitSetterObject /\ [][NextSetter]_vars

----------------------------------------------------------------------------
(* Properties of Test.execute and TestCondition.check, under SpecTest *)

\* the result of the command of the Test object
Rc == Val(returncode)
Out == Val(output)

PassHolds(k) == check(test.pass_conditions[k], Rc, Out)
FailHolds(k) == check(test.fail_conditions[k], Rc, Out)
AllPassHold == \A k \in DOMAIN test.pass_conditions : PassHolds(k)
SomeFailHolds == \E k \in DOMAIN test.fail_conditions : FailHolds(k)

\* the number of diagnostics printed for condition k of a battery
DiagCount(battery, k) ==
    Cardinality({d \in DOMAIN diags : diags[d].battery = battery /\ diags[d].idx = k})

\* the condition a logged check was made on
CheckedCondition(x) ==
    IF x.battery = "pass" THEN test.pass_conditions[x.idx]
    ELSE test.fail_conditions[x.idx]

\* s occurs in t at offset i, character by character
OccursAt(s, t, i) ==
    /\ i + Len(s) <= Len(t)
    /\ \A m \in 1..Len(s) : t[i + m] = s[m]
Occurs(s, t) == \E i \in 0..Len(t) : OccursAt(s, t, i)

\* C1: Test.execute() returns true exactly when expected equals (every
\* pass-condition checks true and no fail-condition checks true); with both
\* batteries empty the verdict equals expected.
C1_Verdict ==
    tpc = "done" =>
        /\ Val(verdict) = (test.expected = (AllPassHold /\ ~SomeFailHolds))
        /\ test.expected => (Val(verdict) <=> (AllPassHold /\ ~SomeFailHolds))
        /\ ~test.expected => (Val(verdict) <=> (~AllPassHold \/ SomeFailHolds))
        /\ (test.pass_conditions = <<>> /\ test.fail_conditions = <<>>)
                => Val(verdict) = test.expected

\* expected = false, the pass-conditions all hold, a fail-condition holds:
\* the verdict is true
C1_Witness ==
    /\ tpc = "done"
    /\ ~test.expected
    /\ test.pass_conditions # <<>>
    /\ AllPassHold
    /\ SomeFailHolds
    /\ Val(verdict) = TRUE

\* C4 as stated: a diagnostic is emitted for a fail-condition exactly when its
\* check() is true and expected is false; in Scenario C (exit code 2,
\* fail-condition returncode=2, expected=false) the verdict is true and a
\* diagnostic is printed for the fail-condition.
C4_AsStated ==
    tpc = "done" =>
        /\ \A k \in DOMAIN test.fail_conditions :
                (DiagCount("fail", k) > 0) <=> (FailHolds(k) /\ ~test.expected)
        /\ (/\ ~test.expected
            /\ Rc = 2
            /\ test.pass_conditions = <<>>
            /\ test.fail_conditions = <<[return_code |-> Some(2), contains |-> None]>>)
                => (Val(verdict) = TRUE /\ DiagCount("fail", 1) > 0)

\* C4, amended: one diagnostic is emitted for a fail-condition exactly when
\* its check() is false and expected is false, none when expected is true or
\* the check() is true; in Scenario C the verdict is true and no diagnostic is
\* printed.
C4_FailDiagnostics ==
    /\ tpc \in {"fail", "done"} =>
        \A k \in DOMAIN test.fail_conditions :
            DiagCount("fail", k) =
                IF k < j /\ ~FailHolds(k) /\ ~test.expected THEN 1 ELSE 0
    /\ (/\ tpc = "done"
        /\ ~test.expected
        /\ Rc = 2
        /\ test.pass_conditions = <<>>
        /\ test.fail_conditions = <<[return_code |-> Some(2), contains |-> None]>>)
            => (Val(verdict) = TRUE /\ diags = <<>>)

\* expected = false, the first fail-condition holds and prints nothing, the
\* second does not hold and prints one diagnostic; the verdict is true
C4_Witness ==
    /\ tpc = "done"
    /\ ~test.expected
    /\ Len(test.fail_conditions) = 2
    /\ FailHolds(1)
    /\ ~FailHolds(2)
    /\ DiagCount("fail", 1) = 0
    /\ DiagCount("fail", 2) = 1
    /\ Val(verdict) = TRUE

\* C5: every pass-condition is checked exactly once, in battery order, with
\* no short-circuit after a failure; one diagnostic is emitted for each
\* pass-condition whose check() is false when expected is true, and none when
\* expected is false.
C5_PassBattery ==
    tpc \in {"pass", "fail", "done"} =>
        LET n == IF tpc = "pass" THEN j - 1 ELSE Len(test.pass_conditions)
        IN  /\ Len(checks) >= n
            /\ \A k \in 1..n :
                    /\ checks[k].battery = "pass"
                    /\ checks[k].idx = k
                    /\ checks[k].res = PassHolds(k)
            /\ \A m \in DOMAIN checks : m > n => checks[m].battery = "fail"
            /\ \A k \in DOMAIN test.pass_conditions :
                    DiagCount("pass", k) =
                        IF k <= n /\ ~PassHolds(k) /\ test.expected THEN 1 ELSE 0
            /\ \A d, e \in DOMAIN diags :
                    (d < e /\ diags[d].battery = "pass" /\ diags[e].battery = "pass")
                        => diags[d].idx < diags[e].idx

\* expected = true and two pass-conditions that both fail: both are checked
\* and both print
C5_Witness ==
    /\ tpc = "done"
    /\ test.expected
    /\ Len(test.pass_conditions) = 2
    /\ ~PassHolds(1)
    /\ ~PassHolds(2)
    /\ DiagCount("pass", 1) = 1
    /\ DiagCount("pass", 2) = 1

\* C6: check(exit_code, output) is exit_code == return_code whenever
\* return_code is set, contains being set or not; otherwise, with contains
\* set, it is true iff contains occurs in output (the empty string always
\* does); with neither set it is false.
C6_Check ==
    \A n \in DOMAIN checks :
        LET x == checks[n]
            c == CheckedCondition(x)
        IN  /\ c.return_code # None => (x.res <=> (Rc = Val(c.return_code)))
            /\ (c.return_code = None /\ c.contains # None)
                    => (x.res <=> Occurs(Val(c.contains), Out))
            /\ (c.return_code = None /\ c.contains = Some(<<>>)) => x.res
            /\ (c.return_code = None /\ c.contains = None) => ~x.res

\* a condition with both fields set checks true on the exit code although its
\* text is not in the output; one with neither set has been checked too
C6_Witness ==
    /\ \E n \in DOMAIN checks :
        LET c == CheckedCondition(checks[n])
        IN  /\ c.return_code # None
            /\ c.contains # None
            /\ ~Occurs(Val(c.contains), Out)
            /\ checks[n].res
    /\ \E n \in DOMAIN checks :
        LET c == CheckedCondition(checks[n])
        IN  c.return_code = None /\ c.contains = None

\* C9: the output handed to the conditions is standard output and standard
\* error merged: a contains-condition whose text the command wrote to
\* standard error checks true.
C9_MergedOutput ==
    \A n \in DOMAIN checks :
        LET c == CheckedCondition(checks[n])
        IN  (c.return_code = None /\ c.contains # None
                /\ Occurs(Val(c.contains), Val(errout)))
                    => checks[n].res

----------------------------------------------------------------------------
(* Properties of the Test.expected setter, under SpecSetter *)

\* C8: setting expected to true or "pass" stores true, to false or "fail"
\* stores false; any other value is rejected with an error and leaves the
\* stored polarity as it was; a test element without an expected attribute
\* loads with expected = true.
C8_Expected ==
    /\ setlog # <<>> => expected = setlog[Len(setlog)].after
    /\ \A n \in DOMAIN setlog :
        LET x == setlog[n]
        IN  /\ x.value \in {BoolVal(TRUE), StrVal("pass")}
                    => (~x.raised /\ x.after = TRUE)
            /\ x.value \in {BoolVal(FALSE), StrVal("fail")}
                    => (~x.raised /\ x.after = FALSE)
            /\ x.value \notin {BoolVal(TRUE), BoolVal(FALSE), StrVal("pass"), StrVal("fail")}
                    => (x.raised /\ x.after = x.before)
            /\ (x.how = "load" /\ x.attr = None) => (~x.raised /\ x.after = TRUE)
            /\ (x.how = "set" /\ n > 1) => x.before = setlog[n - 1].after

\* "Pass" was rejected while false was stored and false stayed stored; an
\* element without the attribute was loaded as well
C8_Witness ==
    /\ \E n \in DOMAIN setlog :
        /\ setlog[n].value = StrVal("Pass")
        /\ setlog[n].raised
        /\ setlog[n].before = FALSE
        /\ setlog[n].after = FALSE
    /\ \E n \in DOMAIN setlog :
        /\ setlog[n].how = "load"
        /\ setlog[n].attr = None
        /\ setlog[n].after = TRUE

----------------------------------------------------------------------------
(* Properties of main: loading and running a script, under Spec *)

\* the tests whose verdict was false
FailedTests == {i \in DOMAIN verdicts : ~verdicts[i]}

\* the element the loader is at has no command element
ElemHasNoCommand == elem # None /\ Val(elem).command = None

\* its expected attribute is one the setter accepts
ElemExpectedValid == Val(elem).expected \in {None, Some("pass"), Some("fail")}

\* C2: TestScript.execute() returns the number of tests whose verdict was
\* false; the summary is "All tests passed." exactly when that number is 0
\* and "Some tests failed." exactly when it is greater than 0.
C2_FailureCount ==
    /\ pc \in {"run", "judge"} => numFailures = Cardinality(FailedTests)
    /\ summary # None =>
        /\ Len(verdicts) = Len(tests)
        /\ ret = Some(Cardinality(FailedTests))
        /\ (summary = Some("All tests passed.")) <=> (Cardinality(FailedTests) = 0)
        /\ (summary = Some("Some tests failed.")) <=> (Cardinality(FailedTests) > 0)

\* a run of two tests of which exactly the second failed
C2_Witness ==
    /\ summary = Some("Some tests failed.")
    /\ Len(tests) = 2
    /\ verdicts = <<TRUE, FALSE>>
    /\ ret = Some(1)

\* C3: without a spawn error every test's command is invoked exactly once, in
\* document order and one at a time (the verdict of test i is there before
\* the command of test i+1 starts), whatever the earlier verdicts and whether
\* or not the test has conditions; a false verdict never halts the run.
C3_Sequential ==
    /\ Len(invoked) <= Len(tests)
    /\ \A i \in DOMAIN invoked : invoked[i] = tests[i].command
    /\ Len(verdicts) = IF pc = "judge" THEN Len(invoked) - 1 ELSE Len(invoked)
    /\ pc = "run" => cur = Len(verdicts) + 1
    /\ summary # None =>
        /\ Len(invoked) = Len(tests)
        /\ \A i \in DOMAIN tests :
                Cardinality({n \in DOMAIN invoked : invoked[n] = tests[i].command}) = 1

\* the first test failed, the second has no conditions, both commands ran
C3_Witness ==
    /\ summary # None
    /\ Len(tests) = 2
    /\ verdicts[1] = FALSE
    /\ tests[2].pass_conditions = <<>>
    /\ tests[2].fail_conditions = <<>>
    /\ invoked = <<tests[1].command, tests[2].command>>

\* C7 as stated: when some test has no command element the load aborts with
\* a fatal error naming that test's id and no command of any test is
\* executed; every load error occurs before the first Test.execute() call.
C7_AsStated ==
    /\ ElemHasNoCommand =>
        /\ pc = "load_error"
        /\ Val(exc).id = Some(Val(elem).id)
        /\ invoked = <<>>
    /\ pc = "load_error" => (invoked = <<>> /\ verdicts = <<>>)

\* C7, amended: when some test has no command element the load aborts with a
\* fatal error and no command of any test is executed; the error names that
\* test's id when the loader reaches that test and its expected attribute is
\* absent, "pass" or "fail"; every load error occurs before the first
\* Test.execute() call.
C7_LoadErrors ==
    /\ ElemHasNoCommand =>
        /\ pc = "load_error"
        /\ exc # None
        /\ invoked = <<>>
        /\ verdicts = <<>>
        /\ ElemExpectedValid =>
                (/\ Val(exc).type = "SyntaxError"
                 /\ Val(exc).id = Some(Val(elem).id))
    /\ pc = "load_error" => (exc # None /\ invoked = <<>> /\ verdicts = <<>>)
    /\ pc \in {"main", "parse", "tests"} => (invoked = <<>> /\ verdicts = <<>>)
    /\ invoked # <<>> => (exc = None \/ Val(exc).type = "OSError")

\* the second test has no command: the load aborted naming it, and the
\* command of the first, loaded, test never ran
C7_Witness ==
    /\ pc = "load_error"
    /\ Len(tests) = 1
    /\ ElemHasNoCommand
    /\ Val(elem).id = 2
    /\ Val(exc).id = Some(2)
    /\ invoked = <<>>

\* a child of a block has no text
HasTextless(b) == b # None /\ \E k \in DOMAIN Val(b) : Val(b)[k].text = None

\* the children of a block that have text
WithText(b) ==
    IF b = None THEN <<>>
    ELSE LET HasText(kid) == kid.text # None IN SelectSeq(Val(b), HasText)

\* a child that is textless, or a well-formed returncode or contains
KidAcceptable(kid) ==
    \/ kid.text = None
    \/ kid.tag = "contains"
    \/ (kid.tag = "returncode" /\ IsIntText(Val(kid.text)))

BlockAcceptable(b) == b = None \/ \A k \in DOMAIN Val(b) : KidAcceptable(Val(b)[k])

\* C10: a textless child of a pass or fail block is logged and skipped
\* without aborting the load: the remaining children of the block become
\* conditions, the test is added to the script, and the script runs.
C10_EmptyChildSkipped ==
    (/\ elem # None
     /\ ElemExpectedValid
     /\ Val(elem).command # None
     /\ BlockAcceptable(Val(elem).pass)
     /\ BlockAcceptable(Val(elem).fail)
     /\ (HasTextless(Val(elem).pass) \/ HasTextless(Val(elem).fail)))
        => /\ pc = "tests"
           /\ exc = None
           /\ Len(tests) = Val(elem).id
           /\ Len(tests[Len(tests)].pass_conditions) = Len(WithText(Val(elem).pass))
           /\ Len(tests[Len(tests)].fail_conditions) = Len(WithText(Val(elem).fail))

====
